---- MODULE Spec2Model ----
(***************************************************************************)
(* A model of package chain (src/chain.go): ordered composition of         *)
(* context-aware handler wraps.                                            *)
(*                                                                         *)
(*   Spec       the builder: New, Append, End, EndFn over chains whose     *)
(*              wrap slices live in shared backing arrays (Go slices).     *)
(*   SpecServe  one built handler in service, invoked by concurrent        *)
(*              requests that unwind through the wrap layers.              *)
(*   SpecUnwind one request through a deeper chain, with layers that       *)
(*              return without calling their inner handler.                *)
(*   SpecCtx    the post-handler context slot: InitPHFC / GetPHFC over     *)
(*              derived contexts and their pointer cells.                  *)
(***************************************************************************)
EXTENDS Integers, Sequences, FiniteSets, TLC

VARIABLES
    arrays,   \* the heap of backing arrays of wrap slices: arrays[a][1..cap]
    chains,   \* every Chain value returned so far, in order of return
    last,     \* the most recent operation: its inputs and what it returned
    served,   \* the host handler put into service (SpecServe)
    reqs,     \* the in-flight invocations of served, one per request
    cells,    \* the heap of *context.Context cells made by InitPHFC
    ctxs      \* the contexts derived so far (SpecCtx)

vars == <<arrays, chains, last, served, reqs, cells, ctxs>>

(***************************************************************************)
(* Bounds of the model.                                                    *)
(***************************************************************************)
MaxChains == 3    \* Chain values returned in one behaviour
MaxLen    == 2    \* wraps in one chain
MaxArgs   == 2    \* wraps passed to one New or Append call
MaxSpare  == 1    \* spare capacity of a slice the caller hands to New
MaxReqs   == 2    \* concurrent invocations of the served handler
MaxWraps  == 2    \* wraps of the chain put into service
MaxDerive == 3    \* derivation steps of one context (SpecCtx)
MaxCtxs   == 4    \* contexts kept (SpecCtx)
MaxDepth  == 3    \* wraps of the chain one request unwinds (SpecUnwind)

Max2(a, b) == IF a >= b THEN a ELSE b

(***************************************************************************)
(* Contexts.  A context.Context is its root and the key/value pairs        *)
(* derived onto it, oldest first.  Keys and values carry their Go type:    *)
(* a key of another type never equals postHandlerFuncCtxKey.               *)
(***************************************************************************)
postHandlerFuncCtxKey == [typ |-> "ctxKey", n |-> 0]
UserKey == [typ |-> "userKey", n |-> 0]

Background(name) == [base |-> name, vals |-> <<>>]
NoCtx == Background("none")

PtrVal(p) == [typ |-> "ptr", n |-> p]
IntVal(n) == [typ |-> "int", n |-> n]
NoVal == [typ |-> "nil", n |-> 0]

\* context.WithValue(ctx, k, v)
WithValue(ctx, k, v) == [ctx EXCEPT !.vals = Append(@, [k |-> k, v |-> v])]

\* context.WithCancel(ctx): a derivation that carries no key of its own
CancelKey == [typ |-> "cancel", n |-> 0]
WithCancel(ctx) == [ctx EXCEPT !.vals = Append(@, [k |-> CancelKey, v |-> NoVal])]

\* Value answering from the oldest derivation that set k
ValueFromOldest(vals, i, k) ==
    LET hits == {j \in 1..i : vals[j].k = k} IN
    IF hits = {} THEN NoVal
    ELSE vals[CHOOSE j \in hits : \A m \in hits : j <= m].v

\* ctx.Value(k): the nearest derivation that set k, nil when none did
RECURSIVE ValueFrom(_, _, _)
ValueFrom(vals, i, k) ==
    IF i < 1 THEN NoVal
    ELSE IF vals[i].k = k THEN vals[i].v
    ELSE ValueFrom(vals, i - 1, k)

Value(ctx, k) == ValueFrom(ctx.vals, Len(ctx.vals), k)

(***************************************************************************)
(* Wraps and handlers.  A wrap is a func(Handler) Handler; the model's     *)
(* wraps are the callers' middleware, told apart by kind and id.  A        *)
(* Handler value is its terminal (a nil interface, or a HandlerFunc that   *)
(* is itself nil or a function) and the layers wrapped around it,          *)
(* outermost first.                                                        *)
(***************************************************************************)
Wrap(kind, id) == [kind |-> kind, id |-> id]
NoWrap == Wrap("none", 0)

NilFn == "nil"
Fns == {"f"}

NilHandler == [typ |-> "nil", fn |-> NilFn, layers |-> <<>>]

\* HandlerFunc(f) held in a Handler interface (chain.go:20-25): the interface
\* is non-nil even when the function in it is nil
HandlerFunc(f) == [typ |-> "HandlerFunc", fn |-> f, layers |-> <<>>]

IsNil(h) == h.typ = "nil"

\* a wrap applied the wrong way round: the new layer goes innermost
ApplyWrapInside(w, h) == [h EXCEPT !.layers = @ \o <<w>>]

\* w(h): the handler a wrap returns around h
ApplyWrap(w, h) == [h EXCEPT !.layers = <<w>> \o @]

\* http.Handler values: nil, or a handlerAdapter{ctx, h}
NilHost == [nil |-> TRUE, ctx |-> NoCtx, h |-> NilHandler]
handlerAdapter(ctx, h) == [nil |-> FALSE, ctx |-> ctx, h |-> h]

(***************************************************************************)
(* Slices.  A slice is (array, len, cap); array 0 is the nil slice.        *)
(***************************************************************************)
NilSlice == [arr |-> 0, len |-> 0, cap |-> 0]

\* the elements visible through slice s
SliceElems(arrs, s) == [i \in 1..s.len |-> arrs[s.arr][i]]

\* a fresh array of capacity cap holding elems
NewArray(elems, cap) ==
    [i \in 1..cap |-> IF i <= Len(elems) THEN elems[i] ELSE NoWrap]

\* the capacities the runtime may give a grown slice: from an exact fit to
\* twice the old capacity
GrowCaps(s, need) == need..Max2(need, 2 * s.cap)

\* GoAppend with an off-by-one start: the first new element lands on the
\* receiver's last element
GoAppendClobber(arrs, s, mw, newcap) ==
    LET need == s.len + Len(mw)
        at(i) == IF i >= s.len /\ i < need /\ i - s.len + 1 <= Len(mw)
                 THEN mw[i - s.len + 1] ELSE NoWrap
    IN
    IF need <= s.cap
    THEN [s    |-> [s EXCEPT !.len = need],
          arrs |-> IF Len(mw) = 0 \/ s.len = 0 THEN arrs
                   ELSE [arrs EXCEPT ![s.arr] =
                           [i \in 1..s.cap |->
                              IF i >= s.len /\ i < need THEN at(i) ELSE @[i]]]]
    ELSE [s    |-> [arr |-> Len(arrs) + 1, len |-> need, cap |-> newcap],
          arrs |-> Append(arrs, NewArray(SliceElems(arrs, s) \o mw, newcap))]

\* append(s, mw...) with the runtime choosing capacity newcap when it grows:
\* in place when the elements fit the capacity, else into a fresh array
GoAppend(arrs, s, mw, newcap) ==
    LET need == s.len + Len(mw) IN
    IF need <= s.cap
    THEN [s    |-> [s EXCEPT !.len = need],
          arrs |-> IF Len(mw) = 0 THEN arrs
                   ELSE [arrs EXCEPT ![s.arr] =
                           [i \in 1..s.cap |->
                              IF i > s.len /\ i <= need THEN mw[i - s.len]
                              ELSE @[i]]]]
    ELSE [s    |-> [arr |-> Len(arrs) + 1, len |-> need, cap |-> newcap],
          arrs |-> Append(arrs, NewArray(SliceElems(arrs, s) \o mw, newcap))]

(***************************************************************************)
(* Chain (chain.go:28-31) and its operations.                              *)
(***************************************************************************)
Chain(ctx, m) == [ctx |-> ctx, m |-> m]

\* the wrap sequence a chain shows
WrapsOf(arrs, c) == SliceElems(arrs, c.m)

\* the caller's slice mw... with spare unused capacity, in a fresh array (nil
\* for no wraps and no capacity)
CallerSlice(arrs, mw, spare) ==
    LET cap == Len(mw) + spare IN
    IF cap = 0 THEN [s |-> NilSlice, arrs |-> arrs]
    ELSE [s    |-> [arr |-> Len(arrs) + 1, len |-> Len(mw), cap |-> cap],
          arrs |-> Append(arrs, NewArray(mw, cap))]

\* New(ctx, mw...) (chain.go:48-50): Chain{ctx: ctx, m: mw}
ChainNew(arrs, ctx, mw, spare) ==
    LET a == CallerSlice(arrs, mw, spare) IN
    [c |-> Chain(ctx, a.s), arrs |-> a.arrs]

\* Append returning a chain built anew, its context left unset
ChainAppendNoCtx(arrs, c, mw, newcap) ==
    LET a == GoAppend(arrs, c.m, mw, newcap) IN
    [c |-> Chain(NoCtx, a.s), arrs |-> a.arrs]

\* c.Append(mw...) (chain.go:54-57): c is a copy of the receiver; the slice
\* append returns goes into the copy, which is returned
ChainAppend(arrs, c, mw, newcap) ==
    LET a == GoAppend(arrs, c.m, mw, newcap) IN
    [c |-> [c EXCEPT !.m = a.s], arrs |-> a.arrs]

\* EndLoop stopping one short: for i := len(c.m)-1; i > 0; i--
RECURSIVE EndLoopSkipFirst(_, _, _)
EndLoopSkipFirst(m, i, h) ==
    IF i < 2 THEN [h |-> h, called |-> <<>>]
    ELSE LET r == EndLoopSkipFirst(m, i - 1, ApplyWrap(m[i], h)) IN
         [h |-> r.h, called |-> <<m[i]>> \o r.called]

\* EndLoop walking the slice forwards: for i := 0; i < len(c.m); i++
RECURSIVE EndLoopForward(_, _, _)
EndLoopForward(m, i, h) ==
    IF i < 1 THEN [h |-> h, called |-> <<>>]
    ELSE LET j == Len(m) - i + 1
             r == EndLoopForward(m, i - 1, ApplyWrap(m[j], h)) IN
         [h |-> r.h, called |-> <<m[j]>> \o r.called]

\* End's loop (chain.go:65-67): for i := len(c.m)-1; i >= 0; i-- { h = c.m[i](h) }
RECURSIVE EndLoop(_, _, _)
EndLoop(m, i, h) ==
    IF i < 1 THEN [h |-> h, called |-> <<>>]
    ELSE LET r == EndLoop(m, i - 1, ApplyWrap(m[i], h)) IN
         [h |-> r.h, called |-> <<m[i]>> \o r.called]

\* End without its nil check
EndNoNilCheck(arrs, c, h) ==
    LET r == EndLoop(WrapsOf(arrs, c), c.m.len, h) IN
    [out |-> handlerAdapter(c.ctx, r.h), called |-> r.called]

\* c.End(h) (chain.go:60-73): the host handler, and the wraps it called
End(arrs, c, h) ==
    IF IsNil(h) THEN [out |-> NilHost, called |-> <<>>]
    ELSE LET r == EndLoop(WrapsOf(arrs, c), c.m.len, h) IN
         [out |-> handlerAdapter(c.ctx, r.h), called |-> r.called]

\* EndFn without its nil check: a nil func goes to End inside a Handler
EndFnNoNilCheck(arrs, c, f) == End(arrs, c, HandlerFunc(f))

\* c.EndFn(f) (chain.go:77-82)
EndFn(arrs, c, f) ==
    IF f = NilFn THEN End(arrs, c, NilHandler)
    ELSE End(arrs, c, HandlerFunc(f))

(***************************************************************************)
(* The builder's inputs.                                                   *)
(***************************************************************************)
BuildWraps == {Wrap("plain", 1), Wrap("bridge", 2)}
BuildCtxs  == {Background("c0")}

ArgSeqs == UNION {[1..n -> BuildWraps] : n \in 0..MaxArgs}

\* the Handler values a caller passes to End
EndInputs == {NilHandler, HandlerFunc(NilFn)} \cup {HandlerFunc(f) : f \in Fns}

NoOp == [op |-> "none", c |-> 0, res |-> 0, mw |-> <<>>, h |-> NilHandler,
         fn |-> NilFn, out |-> NilHost, called |-> <<>>, arg |-> NoCtx,
         ctx |-> NoCtx, ok |-> FALSE, p |-> 0]

Init ==
    /\ arrays = <<>>
    /\ chains = <<>>
    /\ last = NoOp
    /\ served = NilHost
    /\ reqs = <<>>
    /\ cells = <<>>
    /\ ctxs = {}

\* New(ctx, mw...) (chain.go:48-50): the chain holds the caller's slice, which
\* is nil for no argument and may have spare capacity when passed as s...
New ==
    \E ctx \in BuildCtxs, mw \in ArgSeqs, spare \in 0..MaxSpare :
        /\ Len(chains) < MaxChains
        /\ LET n == ChainNew(arrays, ctx, mw, spare)
           IN /\ arrays' = n.arrs
              /\ chains' = Append(chains, n.c)
              /\ last' = [NoOp EXCEPT !.op = "New", !.mw = mw, !.ctx = ctx,
                                      !.res = Len(chains) + 1]
        /\ UNCHANGED <<served, reqs, cells, ctxs>>

\* c.Append(mw...)
AppendOp ==
    \E i \in 1..Len(chains), mw \in ArgSeqs :
        /\ Len(chains) < MaxChains
        /\ chains[i].m.len + Len(mw) <= MaxLen
        /\ \E newcap \in GrowCaps(chains[i].m, chains[i].m.len + Len(mw)) :
            LET a == ChainAppend(arrays, chains[i], mw, newcap) IN
            /\ arrays' = a.arrs
            /\ chains' = Append(chains, a.c)
            /\ last' = [NoOp EXCEPT !.op = "Append", !.c = i, !.mw = mw,
                                    !.res = Len(chains) + 1]
        /\ UNCHANGED <<served, reqs, cells, ctxs>>

\* c.End(h)
EndOp ==
    \E i \in 1..Len(chains), h \in EndInputs :
        LET e == End(arrays, chains[i], h) IN
        /\ last' = [NoOp EXCEPT !.op = "End", !.c = i, !.h = h,
                                !.out = e.out, !.called = e.called]
        /\ UNCHANGED <<arrays, chains, served, reqs, cells, ctxs>>

\* c.EndFn(f)
EndFnOp ==
    \E i \in 1..Len(chains), f \in Fns \cup {NilFn} :
        LET e == EndFn(arrays, chains[i], f) IN
        /\ last' = [NoOp EXCEPT !.op = "EndFn", !.c = i, !.fn = f,
                                !.out = e.out, !.called = e.called]
        /\ UNCHANGED <<arrays, chains, served, reqs, cells, ctxs>>

Next == New \/ AppendOp \/ EndOp \/ EndFnOp

Spec == Init /\ [][Next]_vars

(***************************************************************************)
(* The post-handler context slot (chain.go:100-118).  A cell is a          *)
(* context.Context variable on the heap; a pointer is its index in cells.  *)
(***************************************************************************)
\* InitPHFC pointing its cell at the context it returns
InitPHFCSelf(cs, ctx) ==
    LET d == WithValue(ctx, postHandlerFuncCtxKey, PtrVal(Len(cs) + 1)) IN
    [cells |-> Append(cs, d), ctx |-> d]

\* InitPHFC keeping its pointee in one package-level variable
InitPHFCShared(cs, ctx) ==
    IF cs = <<>>
    THEN [cells |-> <<ctx>>,
          ctx   |-> WithValue(ctx, postHandlerFuncCtxKey, PtrVal(1))]
    ELSE [cells |-> [cs EXCEPT ![1] = ctx],
          ctx   |-> WithValue(ctx, postHandlerFuncCtxKey, PtrVal(1))]

\* InitPHFC(ctx) (chain.go:109-111): &ctx is the address of the parameter, a
\* fresh variable of each call that holds the context passed in
InitPHFC(cs, ctx) ==
    [cells |-> Append(cs, ctx),
     ctx   |-> WithValue(ctx, postHandlerFuncCtxKey, PtrVal(Len(cs) + 1))]

\* GetPHFC looking under a key of another type
GetPHFCWrongKey(ctx) ==
    LET v == Value(ctx, UserKey) IN
    IF v.typ = "ptr" THEN [p |-> v.n, ok |-> TRUE] ELSE [p |-> 0, ok |-> FALSE]

\* GetPHFC(ctx) (chain.go:115-118): cx, ok := ctx.Value(key).(*context.Context)
GetPHFC(ctx) ==
    LET v == Value(ctx, postHandlerFuncCtxKey) IN
    IF v.typ = "ptr" THEN [p |-> v.n, ok |-> TRUE] ELSE [p |-> 0, ok |-> FALSE]

(***************************************************************************)
(* Serving.  A request is one invocation of the served handler: the        *)
(* handler it is about to call with which context, the frames of the       *)
(* layers it is inside of, and the effects it has produced.                *)
(***************************************************************************)
ServeWraps == {Wrap("plain", 1), Wrap("bridge", 2), Wrap("phfc", 3),
               Wrap("store", 4)}
ServeCtxs  == {Background("c0")}

ServeSeqs == UNION {[1..n -> ServeWraps] : n \in 0..MaxWraps}

\* handlerAdapter.ServeHTTP with a context of its own instead of ha.ctx
ServeHTTPNoCtx(ha) == [h |-> ha.h, ctx |-> NoCtx]

\* ha.ServeHTTP(w, r) (chain.go:38-40): the call ha.h.ServeHTTPContext(ha.ctx, w, r)
ServeHTTP(ha) == [h |-> ha.h, ctx |-> ha.ctx]

\* Bridge's adapter holding no context
BridgeAdapterNoCtx(ctx, n) == handlerAdapter(NoCtx, n)

\* Bridge's adapter closing over the context bound at End instead of the one
\* the bridged handler was called with
BridgeAdapterStored(ctx, n) == handlerAdapter(served.ctx, n)

\* Bridge's adapter (chain.go:91-93):
\* noCtxHandlerAdapter{mw: h, handlerAdapter: handlerAdapter{ctx: ctx, h: n}}
BridgeAdapter(ctx, n) == handlerAdapter(ctx, n)

\* an effect of layer w (NoWrap: the terminal handler) of request wr, which
\* received context ctx
Event(ev, w, ctx, wr) ==
    [ev |-> ev, w |-> w, ctx |-> ctx, wr |-> wr, arg |-> NilHost,
     p |-> 0, obs |-> NoCtx]

Frame(w, ctx) == [w |-> w, ctx |-> ctx]

\* the handler inside the outermost layer of h
Inner(h) == [h EXCEPT !.layers = Tail(@)]

\* a chain of one of the wrap sequences seqs is put into service: New with
\* all its wraps, or New with none and all of them appended
InitWith(seqs) ==
    \E ctx \in ServeCtxs, ws \in seqs, f \in Fns :
      \E k \in {0, Len(ws)} :
        LET head == SubSeq(ws, 1, k)
            rest == SubSeq(ws, k + 1, Len(ws))
            arr0 == IF k = 0 THEN <<>> ELSE <<NewArray(head, k)>>
            m0   == IF k = 0 THEN NilSlice
                    ELSE [arr |-> 1, len |-> k, cap |-> k]
            a    == GoAppend(arr0, m0, rest, Len(ws))
            c    == Chain(ctx, a.s)
            e    == End(a.arrs, c, HandlerFunc(f))
        IN /\ arrays = a.arrs
           /\ chains = <<c>>
           /\ served = e.out
           /\ last = [NoOp EXCEPT !.op = "End", !.c = 1, !.h = HandlerFunc(f),
                                  !.out = e.out, !.called = e.called]
           /\ reqs = <<>>
           /\ cells = <<>>
           /\ ctxs = {}

InitServe == InitWith(ServeSeqs)

\* the host framework calls served.ServeHTTP(w, r) for a new request, with at
\* most n requests in all
InvokeUpTo(n) ==
    /\ Len(reqs) < n
    /\ ~served.nil
    /\ LET call == ServeHTTP(served) IN
       reqs' = Append(reqs, [cur |-> call.h, ctx |-> call.ctx, stack |-> <<>>,
                             trace |-> <<>>, phase |-> "call"])
    /\ UNCHANGED <<arrays, chains, last, served, cells, ctxs>>

Invoke == InvokeUpTo(MaxReqs)

Calling(i, kind) ==
    /\ reqs[i].phase = "call"
    /\ reqs[i].cur.layers # <<>>
    /\ Head(reqs[i].cur.layers).kind = kind

\* a context-aware wrap: entry effect, then next.ServeHTTPContext(ctx, w, r)
CallPlain ==
    \E i \in 1..Len(reqs) :
        /\ Calling(i, "plain")
        /\ LET r == reqs[i]
               w == Head(r.cur.layers)
           IN reqs' = [reqs EXCEPT ![i] =
                  [r EXCEPT !.cur = Inner(r.cur),
                            !.stack = Append(@, Frame(w, r.ctx)),
                            !.trace = Append(@, Event("entry", w, r.ctx, i))]]
        /\ UNCHANGED <<arrays, chains, last, served, cells, ctxs>>

\* the handler Bridge built (chain.go:90-95): x holds ctx and n, the legacy
\* wrap is called with x, and the plain handler it returns runs its entry
\* effect and calls x.ServeHTTP(w, r)
CallBridge ==
    \E i \in 1..Len(reqs) :
        /\ Calling(i, "bridge")
        /\ LET r == reqs[i]
               w == Head(r.cur.layers)
               x == BridgeAdapter(r.ctx, Inner(r.cur))
               call == ServeHTTP(x)
           IN reqs' = [reqs EXCEPT ![i] =
                  [r EXCEPT !.cur = call.h,
                            !.ctx = call.ctx,
                            !.stack = Append(@, Frame(w, r.ctx)),
                            !.trace = @ \o
                               <<[Event("legacy", w, r.ctx, i) EXCEPT !.arg = x],
                                 Event("entry", w, r.ctx, i)>>]]
        /\ UNCHANGED <<arrays, chains, last, served, cells, ctxs>>

\* a wrap that installs the slot: next.ServeHTTPContext(InitPHFC(ctx), w, r)
CallPHFC ==
    \E i \in 1..Len(reqs) :
        /\ Calling(i, "phfc")
        /\ LET r == reqs[i]
               w == Head(r.cur.layers)
               n == InitPHFC(cells, r.ctx)
           IN /\ cells' = n.cells
              /\ reqs' = [reqs EXCEPT ![i] =
                  [r EXCEPT !.cur = Inner(r.cur),
                            !.ctx = n.ctx,
                            !.stack = Append(@, Frame(w, n.ctx)),
                            !.trace = Append(@,
                               [Event("entry", w, r.ctx, i)
                                   EXCEPT !.p = GetPHFC(n.ctx).p])]]
        /\ UNCHANGED <<arrays, chains, last, served, ctxs>>

\* a wrap that derives a context of its request and stores it through the
\* slot's pointer when there is one, then calls next with it
CallStore ==
    \E i \in 1..Len(reqs) :
        /\ Calling(i, "store")
        /\ LET r == reqs[i]
               w == Head(r.cur.layers)
               g == GetPHFC(r.ctx)
               d == WithValue(r.ctx, UserKey, IntVal(i))
           IN /\ cells' = IF g.ok THEN [cells EXCEPT ![g.p] = d] ELSE cells
              /\ reqs' = [reqs EXCEPT ![i] =
                  [r EXCEPT !.cur = Inner(r.cur),
                            !.ctx = d,
                            !.stack = Append(@, Frame(w, d)),
                            !.trace = Append(@,
                               [Event("entry", w, r.ctx, i)
                                   EXCEPT !.p = g.p, !.obs = d])]]
        /\ UNCHANGED <<arrays, chains, last, served, ctxs>>

\* the terminal HandlerFunc (chain.go:23-25): h(c, w, r)
CallTerminal ==
    \E i \in 1..Len(reqs) :
        /\ reqs[i].phase = "call"
        /\ reqs[i].cur.layers = <<>>
        /\ LET r == reqs[i] IN
           reqs' = [reqs EXCEPT ![i] =
                  [r EXCEPT !.trace = Append(@, Event("h", NoWrap, r.ctx, i)),
                            !.phase = IF r.stack = <<>> THEN "done" ELSE "ret"]]
        /\ UNCHANGED <<arrays, chains, last, served, cells, ctxs>>

\* the innermost layer still open gets control back and runs its exit
\* effect; a slot wrap reads the context its pointer now leads to
Return ==
    \E i \in 1..Len(reqs) :
        /\ reqs[i].phase = "ret"
        /\ LET r == reqs[i]
               f == r.stack[Len(r.stack)]
               g == GetPHFC(f.ctx)
               e == Event("exit", f.w, f.ctx, i)
           IN reqs' = [reqs EXCEPT ![i] =
                  [r EXCEPT !.stack = SubSeq(@, 1, Len(@) - 1),
                            !.trace = Append(@,
                               IF f.w.kind = "phfc"
                               THEN [e EXCEPT !.p = g.p,
                                              !.obs = IF g.ok THEN cells[g.p]
                                                      ELSE NoCtx]
                               ELSE e),
                            !.phase = IF Len(r.stack) = 1 THEN "done" ELSE "ret"]]
        /\ UNCHANGED <<arrays, chains, last, served, cells, ctxs>>

NextServe ==
    \/ Invoke
    \/ CallPlain
    \/ CallBridge
    \/ CallPHFC
    \/ CallStore
    \/ CallTerminal
    \/ Return

SpecServe == InitServe /\ [][NextServe]_vars

(***************************************************************************)
(* One request through a deeper chain.  Besides the wraps above, a layer   *)
(* may return without calling its inner handler: a context-aware wrap, or  *)
(* the plain handler a legacy wrap returned under Bridge.                  *)
(***************************************************************************)
UnwindWraps == ServeWraps \cup {Wrap("skip", 5), Wrap("bridgeskip", 6)}

UnwindSeqs == UNION {[1..n -> UnwindWraps] : n \in 0..MaxDepth}

InitUnwind == InitWith(UnwindSeqs)

InvokeOne == InvokeUpTo(1)

\* a layer's return ending the whole request, the layers outside it never
\* getting control back
BackDone(r) == "done"

\* the phase of a request whose current layer returns at once
Back(r) == IF r.stack = <<>> THEN "done" ELSE "ret"

\* a context-aware wrap that answers by itself: it never calls next
CallSkip ==
    \E i \in 1..Len(reqs) :
        /\ Calling(i, "skip")
        /\ LET r == reqs[i]
               w == Head(r.cur.layers)
           IN reqs' = [reqs EXCEPT ![i] =
                  [r EXCEPT !.trace = Append(@, Event("skip", w, r.ctx, i)),
                            !.phase = Back(r)]]
        /\ UNCHANGED <<arrays, chains, last, served, cells, ctxs>>

\* the handler Bridge built (chain.go:90-95) around a legacy wrap whose plain
\* handler answers by itself: h(x) is called, x.ServeHTTP never is
CallBridgeSkip ==
    \E i \in 1..Len(reqs) :
        /\ Calling(i, "bridgeskip")
        /\ LET r == reqs[i]
               w == Head(r.cur.layers)
               x == BridgeAdapter(r.ctx, Inner(r.cur))
           IN reqs' = [reqs EXCEPT ![i] =
                  [r EXCEPT !.trace = @ \o
                               <<[Event("legacy", w, r.ctx, i) EXCEPT !.arg = x],
                                 Event("skip", w, r.ctx, i)>>,
                            !.phase = Back(r)]]
        /\ UNCHANGED <<arrays, chains, last, served, cells, ctxs>>

NextUnwind ==
    \/ InvokeOne
    \/ CallPlain
    \/ CallBridge
    \/ CallPHFC
    \/ CallStore
    \/ CallSkip
    \/ CallBridgeSkip
    \/ CallTerminal
    \/ Return

SpecUnwind == InitUnwind /\ [][NextUnwind]_vars

(***************************************************************************)
(* The slot on its own: a caller derives contexts, installs the slot,      *)
(* looks it up and stores through the pointer it got.                      *)
(***************************************************************************)
UserVals == {IntVal(1), IntVal(2)}

InitCtx ==
    /\ arrays = <<>>
    /\ chains = <<>>
    /\ last = NoOp
    /\ served = NilHost
    /\ reqs = <<>>
    /\ cells = <<>>
    /\ ctxs = {Background("c0")}

CanDerive(c) == Len(c.vals) < MaxDerive /\ Cardinality(ctxs) < MaxCtxs

\* context.WithValue(c, k, v) with a key of the caller's own type
CtxWithValue ==
    \E c \in ctxs, v \in UserVals :
        /\ CanDerive(c)
        /\ ctxs' = ctxs \cup {WithValue(c, UserKey, v)}
        /\ last' = [NoOp EXCEPT !.op = "WithValue", !.arg = c,
                                !.ctx = WithValue(c, UserKey, v)]
        /\ UNCHANGED <<arrays, chains, served, reqs, cells>>

\* c2, cancel := context.WithCancel(c)
CtxWithCancel ==
    \E c \in ctxs :
        /\ CanDerive(c)
        /\ ctxs' = ctxs \cup {WithCancel(c)}
        /\ last' = [NoOp EXCEPT !.op = "WithCancel", !.arg = c,
                                !.ctx = WithCancel(c)]
        /\ UNCHANGED <<arrays, chains, served, reqs, cells>>

\* InitPHFC(c)
CtxInitPHFC ==
    \E c \in ctxs :
        /\ CanDerive(c)
        /\ LET n == InitPHFC(cells, c) IN
           /\ cells' = n.cells
           /\ ctxs' = ctxs \cup {n.ctx}
           /\ last' = [NoOp EXCEPT !.op = "InitPHFC", !.arg = c, !.ctx = n.ctx]
        /\ UNCHANGED <<arrays, chains, served, reqs>>

\* p, ok := GetPHFC(c)
CtxGetPHFC ==
    \E c \in ctxs :
        /\ LET g == GetPHFC(c) IN
           last' = [NoOp EXCEPT !.op = "GetPHFC", !.arg = c, !.p = g.p,
                                !.ok = g.ok]
        /\ UNCHANGED <<arrays, chains, served, reqs, cells, ctxs>>

\* if p, ok := GetPHFC(c); ok { *p = d }
CtxStore ==
    \E c \in ctxs, d \in ctxs :
        /\ GetPHFC(c).ok
        /\ cells' = [cells EXCEPT ![GetPHFC(c).p] = d]
        /\ last' = [NoOp EXCEPT !.op = "Store", !.arg = c, !.ctx = d,
                                !.p = GetPHFC(c).p]
        /\ UNCHANGED <<arrays, chains, served, reqs, ctxs>>

NextCtx ==
    CtxWithValue \/ CtxWithCancel \/ CtxInitPHFC \/ CtxGetPHFC \/ CtxStore

SpecCtx == InitCtx /\ [][NextCtx]_vars

(***************************************************************************)
(* Properties of the builder (Spec).                                       *)
(***************************************************************************)
RECURSIVE Reverse(_)
Reverse(q) == IF q = <<>> THEN <<>> ELSE Reverse(Tail(q)) \o <<Head(q)>>

\* the chain an operation was called on, and the chain it returned
Receiver == chains[last.c]
Returned == chains[last.res]

\* C2: every Chain value returned earlier keeps exactly the wrap sequence it
\* had when it was returned, whatever New and Append calls follow: no step
\* changes the wraps visible through an existing chain.
C2_EarlierChainsKeepWraps ==
    [][\A i \in 1..Len(chains) :
          WrapsOf(arrays', chains'[i]) = WrapsOf(arrays, chains[i])]_vars

\* C3: C2 = C.Append(x) leaves what C.End(h) builds, for every non-nil h, as it
\* was before the call (x is not in it), and C2.End(h) is C's layers with x
\* added.
C3_AppendKeepsReceiver ==
    [][(last'.op = "Append" /\ Len(chains') = Len(chains) + 1) =>
          \A h \in EndInputs :
              ~IsNil(h) =>
                  /\ End(arrays', chains'[last'.c], h) = End(arrays, chains[last'.c], h)
                  /\ End(arrays', chains'[last'.res], h).out.h.layers
                       = End(arrays, chains[last'.c], h).out.h.layers \o last'.mw]_vars

\* an Append of a wrap that was written in place, into the spare capacity of
\* the array the receiver still uses
C3_Witness ==
    /\ last.op = "Append"
    /\ Len(last.mw) >= 1
    /\ Receiver.m.len >= 1
    /\ Returned.m.arr = Receiver.m.arr

\* C4 as stated: End makes the last-appended wrap the outermost layer and
\* wrap[0] the innermost, closest to h.
C4_LastAppendedOutermost ==
    (last.op = "End" /\ ~last.out.nil) =>
        last.out.h.layers = Reverse(WrapsOf(arrays, Receiver))

\* C4 amended: End makes the first-appended wrap (wrap[0]) the outermost
\* layer and the last-appended wrap the innermost, closest to h.
C4_FirstAppendedOutermost ==
    (last.op = "End" /\ ~last.out.nil) =>
        /\ last.out.h.layers = WrapsOf(arrays, Receiver)
        /\ last.out.h.fn = last.h.fn

\* End on a chain of two different wraps
C4_Witness ==
    /\ last.op = "End"
    /\ ~last.out.nil
    /\ Receiver.m.len = 2
    /\ WrapsOf(arrays, Receiver)[1] # WrapsOf(arrays, Receiver)[2]

\* C5: End(nil) returns the nil host handler and calls no stored wrap,
\* whatever wraps the chain holds.
C5_EndNilIsNil ==
    (last.op = "End" /\ IsNil(last.h)) =>
        /\ last.out = NilHost
        /\ last.called = <<>>

\* End(nil) on a chain that holds wraps
C5_Witness ==
    /\ last.op = "End"
    /\ IsNil(last.h)
    /\ Receiver.m.len >= 1

\* C6: EndFn(nil) returns what End(nil) returns, the nil host handler, with no
\* wrap called; EndFn(f) for a non-nil f returns the handler End(HandlerFunc(f))
\* returns: same context, same layers in the same order, around f.
C6_EndFnAgreesWithEnd ==
    last.op = "EndFn" =>
        IF last.fn = NilFn
        THEN /\ last.out = End(arrays, Receiver, NilHandler).out
             /\ last.out.nil
             /\ last.called = <<>>
        ELSE /\ last.out = End(arrays, Receiver, HandlerFunc(last.fn)).out
             /\ last.called = End(arrays, Receiver, HandlerFunc(last.fn)).called
             /\ ~last.out.nil
             /\ last.out.h.fn = last.fn

\* EndFn(nil) on a chain that holds wraps
C6_Witness ==
    /\ last.op = "EndFn"
    /\ last.fn = NilFn
    /\ Receiver.m.len >= 1

(***************************************************************************)
(* Properties of serving (SpecServe).                                      *)
(***************************************************************************)
\* the wraps of the chain in service, in append order
ServedWraps == WrapsOf(arrays, chains[1])

Done(i) == reqs[i].phase = "done"

IsEffect(e) == e.ev \in {"entry", "h", "exit"}
IsLegacy(e) == e.ev = "legacy"
IsH(e) == e.ev = "h"

\* the entry, terminal and exit effects of a trace as <<kind, wrap id>>
Effects(tr) ==
    LET es == SelectSeq(tr, IsEffect) IN [j \in 1..Len(es) |-> <<es[j].ev, es[j].w.id>>]

\* what one invocation of a chain of wraps ws must produce
Expected(ws) ==
    LET n == Len(ws) IN
    [j \in 1..n |-> <<"entry", ws[j].id>>]
      \o << <<"h", 0>> >>
      \o [j \in 1..n |-> <<"exit", ws[n + 1 - j].id>>]

\* C1: one invocation of End(h) on wraps [w0..wn-1] produces entry(w0), ...,
\* entry(wn-1), h, exit(wn-1), ..., exit(w0): the first-appended wrap is the
\* outermost layer.
C1_EffectOrder ==
    \A i \in 1..Len(reqs) :
        Done(i) => Effects(reqs[i].trace) = Expected(ServedWraps)

\* a finished invocation through two different wraps
C1_Witness ==
    \E i \in 1..Len(reqs) :
        /\ Done(i)
        /\ Len(ServedWraps) = 2
        /\ ServedWraps[1] # ServedWraps[2]

AllBridge == \A j \in 1..Len(ServedWraps) : ServedWraps[j].kind = "bridge"

\* C8: in a chain of Bridge wraps only, every legacy wrap is called with a
\* plain host handler, and, the legacy handlers calling it, h runs exactly
\* once, with the chain's context c0 unchanged.
C8_BridgeKeepsContext ==
    \A i \in 1..Len(reqs) :
        AllBridge =>
            /\ \A j \in 1..Len(reqs[i].trace) :
                   LET e == reqs[i].trace[j] IN
                   /\ IsLegacy(e) => /\ ~e.arg.nil
                                     /\ e.arg.ctx = chains[1].ctx
                   /\ IsH(e) => e.ctx = chains[1].ctx
            /\ Done(i) =>
                   /\ Len(SelectSeq(reqs[i].trace, IsH)) = 1
                   /\ Len(SelectSeq(reqs[i].trace, IsLegacy)) = Len(ServedWraps)

\* a finished invocation through two Bridge wraps
C8_Witness ==
    \E i \in 1..Len(reqs) :
        /\ Done(i)
        /\ AllBridge
        /\ Len(ServedWraps) >= 2

\* the slot pointers a request got from InitPHFC
SlotPtrs(i) ==
    {reqs[i].trace[j].p : j \in {k \in 1..Len(reqs[i].trace) :
                                    /\ reqs[i].trace[k].ev = "entry"
                                    /\ reqs[i].trace[k].w.kind = "phfc"}}

\* the context is of request i: it carries no request's mark, or i's
OwnedBy(c, i) == Value(c, UserKey) \in {NoVal, IntVal(i)}

\* C9: two requests through the same handler that each call InitPHFC get
\* distinct pointers, and what a request wrote through its pointer is never
\* seen through the other's: a request's cell holds, and its slot wrap reads
\* back, only contexts of that request.
C9_FreshCellPerRequest ==
    \A i \in 1..Len(reqs) :
        LET mine == SlotPtrs(i) IN
        /\ \A k \in (i + 1)..Len(reqs) : mine \cap SlotPtrs(k) = {}
        /\ \A p \in mine : OwnedBy(cells[p], i)
        /\ \A j \in 1..Len(reqs[i].trace) :
               reqs[i].trace[j].ev = "exit" => OwnedBy(reqs[i].trace[j].obs, i)

\* two requests in flight, each with a slot of its own that it has stored
\* through
C9_Witness ==
    /\ Len(reqs) = 2
    /\ \A i \in 1..2 :
           /\ ~Done(i)
           /\ \E p \in SlotPtrs(i) : Value(cells[p], UserKey) = IntVal(i)

\* C10: every invocation of the built handler hands the context stored at
\* End, with its own writer and request, to the outermost layer, and no step
\* of any invocation changes the built handler or the chain's wraps.
C10_ContextBoundOnce ==
    [][/\ served' = served
       /\ chains' = chains
       /\ arrays' = arrays
       /\ \A i \in 1..Len(reqs') :
              /\ reqs'[i].trace = <<>> =>
                     /\ reqs'[i].ctx = chains[1].ctx
                     /\ reqs'[i].cur = served.h
              /\ reqs'[i].trace # <<>> =>
                     /\ reqs'[i].trace[1].ctx = chains[1].ctx
                     /\ reqs'[i].trace[1].wr = i]_vars

\* two invocations in flight at once, both inside the layers
C10_Witness ==
    /\ Len(reqs) = 2
    /\ \A i \in 1..2 : reqs[i].phase = "call" /\ reqs[i].trace # <<>>
    /\ reqs[1].trace # reqs[2].trace

(***************************************************************************)
(* Properties of the slot (SpecCtx).                                       *)
(***************************************************************************)
\* InitPHFC was applied nowhere on the way from the root to c
NeverInit(c) == \A j \in 1..Len(c.vals) : c.vals[j].v.typ # "ptr"

\* C7: GetPHFC(InitPHFC(ctx)) returns (p, true) with *p the ctx passed in, not
\* the context InitPHFC returned; GetPHFC of a context InitPHFC was never
\* applied to returns found = false.
C7_InitThenGet ==
    /\ last.op = "InitPHFC" =>
           LET g == GetPHFC(last.ctx) IN
           /\ g.ok
           /\ cells[g.p] = last.arg
           /\ cells[g.p] # last.ctx
    /\ (last.op = "GetPHFC" /\ NeverInit(last.arg)) =>
           /\ ~last.ok
           /\ last.p = 0

\* InitPHFC of a context that already carries a value and a slot
C7_Witness ==
    /\ last.op = "InitPHFC"
    /\ Len(last.arg.vals) >= 2
    /\ ~NeverInit(last.arg)

(***************************************************************************)
(* Properties of one request's unwinding (SpecUnwind).                     *)
(***************************************************************************)
SetMax(S) == CHOOSE x \in S : \A y \in S : y <= x

IsSlotEntry(e) == e.ev = "entry" /\ e.w.kind = "phfc"
IsSlotExit(e)  == e.ev = "exit" /\ e.w.kind = "phfc"
IsStore(e)     == e.ev = "entry" /\ e.w.kind = "store"

\* the stores through pointer p among the events a+1..j-1 of trace tr
StoresBetween(tr, a, j, p) ==
    {s \in (a + 1)..(j - 1) : IsStore(tr[s]) /\ tr[s].p = p}

\* what the slot wrap that leaves at event j of tr must read back
SlotReadsLatest(tr, j) ==
    \E a \in 1..(j - 1) :
        /\ IsSlotEntry(tr[a])
        /\ tr[a].p = tr[j].p
        /\ LET st == StoresBetween(tr, a, j, tr[j].p) IN
           tr[j].obs = IF st = {} THEN tr[a].ctx ELSE tr[SetMax(st)].obs

\* the frames of slot wraps below frame j of a stack
SlotsBelow(stack, j) == {k \in 1..(j - 1) : stack[k].w.kind = "phfc"}

\* C11: within one request, after the inner handler returns, the outer wrap's
\* GetPHFC(ctx') leads to the context most recently stored through it by an
\* inner layer, or to the ctx given to InitPHFC when none stored; and every
\* inner layer, also behind Bridge wraps, finds the cell of the nearest slot
\* wrap outside it.
C11_OuterSeesLatestStore ==
    \A i \in 1..Len(reqs) :
        /\ \A j \in 1..Len(reqs[i].trace) :
               IsSlotExit(reqs[i].trace[j]) =>
                   /\ reqs[i].trace[j].p # 0
                   /\ SlotReadsLatest(reqs[i].trace, j)
        /\ \A j \in 1..Len(reqs[i].stack) :
               LET below == SlotsBelow(reqs[i].stack, j) IN
               (reqs[i].stack[j].w.kind = "store" /\ below # {}) =>
                   GetPHFC(reqs[i].stack[j].ctx)
                     = GetPHFC(reqs[i].stack[SetMax(below)].ctx)

\* a slot wrap, a Bridge wrap and a storing wrap inside it: the slot wrap has
\* read back the stored context
C11_Witness ==
    \E i \in 1..Len(reqs) :
        /\ Done(i)
        /\ [j \in 1..Len(ServedWraps) |-> ServedWraps[j].kind]
             = <<"phfc", "bridge", "store">>
        /\ \E j \in 1..Len(reqs[i].trace) :
               /\ IsSlotExit(reqs[i].trace[j])
               /\ Value(reqs[i].trace[j].obs, UserKey) = IntVal(i)

(***************************************************************************)
(* More properties of the builder (Spec).                                  *)
(***************************************************************************)
\* what End builds, for every handler a caller may pass, from chain c over
\* the arrays arrs
Built(arrs, c) == [h \in EndInputs |-> End(arrs, c, h).out]

\* Append(a).Append(b), Append(a, b) and New(ctx, wraps..., a, b) build the
\* same handlers from chain c, whatever capacities the runtime picks, and
\* Append() builds what c builds
AppendAlgebra(c, a, b) ==
    LET n    == c.m.len
        r0   == ChainAppend(arrays, c, <<>>, n)
        rn   == ChainNew(arrays, c.ctx, WrapsOf(arrays, c) \o <<a, b>>, 0)
        want == Built(rn.arrs, rn.c)
    IN
    /\ Built(r0.arrs, r0.c) = Built(arrays, c)
    /\ \A n12 \in GrowCaps(c.m, n + 2) :
           LET r12 == ChainAppend(arrays, c, <<a, b>>, n12) IN
           Built(r12.arrs, r12.c) = want
    /\ \A n1 \in GrowCaps(c.m, n + 1) :
           LET r1 == ChainAppend(arrays, c, <<a>>, n1) IN
           \A n2 \in GrowCaps(r1.c.m, n + 2) :
               LET r2 == ChainAppend(r1.arrs, r1.c, <<b>>, n2) IN
               Built(r2.arrs, r2.c) = want

\* C12: Append returns a chain with the receiver's context whose wraps are
\* the receiver's followed by the given ones in order; so for every chain C and
\* wraps a, b, C.Append(a).Append(b), C.Append(a, b) and New(ctx, C's wraps, a,
\* b) finalize alike, and C.Append() finalizes like C.
C12_AppendExtends ==
    /\ last.op = "Append" =>
           /\ Returned.ctx = Receiver.ctx
           /\ WrapsOf(arrays, Returned) = WrapsOf(arrays, Receiver) \o last.mw
    /\ last.op \in {"New", "Append"} =>
           \A i \in 1..Len(chains), a \in BuildWraps, b \in BuildWraps :
               AppendAlgebra(chains[i], a, b)

\* an Append of a wrap to a chain that holds one, grown into a fresh array
C12_Witness ==
    /\ last.op = "Append"
    /\ Receiver.m.len = 1
    /\ Len(last.mw) = 1
    /\ Returned.m.arr # Receiver.m.arr

(***************************************************************************)
(* More properties of one request's unwinding (SpecUnwind).                *)
(***************************************************************************)
IsBridgeWrap(w) == w.kind \in {"bridge", "bridgeskip"}
IsSkipWrap(w)   == w.kind \in {"skip", "bridgeskip"}

BridgesIn(ws) == SelectSeq(ws, IsBridgeWrap)

\* C13: End calls the wraps Bridge produced and no legacy wrap; each
\* invocation of a bridged handler calls its legacy wrap once, with an adapter
\* that holds the context of that very invocation, so the handler inside the
\* Bridge gets the context the bridged handler got, a derived c1 when a wrap
\* outside derived one, and not the chain's stored context.
C13_BridgeClosesOverCurrent ==
    /\ last.called = Reverse(ServedWraps)
    /\ \A i \in 1..Len(reqs) :
           LET tr == reqs[i].trace
               calls == SelectSeq(tr, IsLegacy)
           IN
           /\ \A j \in 1..Len(tr) :
                  IsLegacy(tr[j]) =>
                      /\ ~tr[j].arg.nil
                      /\ tr[j].arg.ctx = tr[j].ctx
                      /\ (tr[j].w.kind = "bridge" /\ Len(tr) >= j + 2) =>
                             tr[j + 2].ctx = tr[j].ctx
           /\ Len(calls) <= Len(BridgesIn(ServedWraps))
           /\ (Done(i) /\ SelectSeq(ServedWraps, IsSkipWrap) = <<>>) =>
                  [j \in 1..Len(calls) |-> calls[j].w] = BridgesIn(ServedWraps)

\* a wrap that derives a context, outside a Bridge wrap: the terminal handler
\* got the derived context
C13_Witness ==
    \E i \in 1..Len(reqs) :
        /\ Done(i)
        /\ [j \in 1..Len(ServedWraps) |-> ServedWraps[j].kind] = <<"store", "bridge">>
        /\ \E j \in 1..Len(reqs[i].trace) :
               /\ IsH(reqs[i].trace[j])
               /\ reqs[i].trace[j].ctx # chains[1].ctx
               /\ Value(reqs[i].trace[j].ctx, UserKey) = IntVal(i)

IsShown(e) == e.ev \in {"entry", "h", "exit", "skip"}

\* the entry, skip, terminal and exit effects of a trace as <<kind, wrap id>>
Shown(tr) ==
    LET es == SelectSeq(tr, IsShown) IN [j \in 1..Len(es) |-> <<es[j].ev, es[j].w.id>>]

\* the outermost layer of ws that does not call its inner handler, 0 for none
FirstSkip(ws) ==
    LET sk == {j \in 1..Len(ws) : IsSkipWrap(ws[j])} IN
    IF sk = {} THEN 0 ELSE CHOOSE j \in sk : \A k \in sk : j <= k

\* the effects up to the layer k that answers by itself
EntriesAndSkip(ws, k) ==
    [j \in 1..(k - 1) |-> <<"entry", ws[j].id>>] \o << <<"skip", ws[k].id>> >>

\* C14 as stated: when a layer returns without calling its inner handler, no
\* layer inside it and not h runs, and the exit effects of the layers outside
\* it run in append order; when every layer calls its inner handler, h runs
\* once.
C14_OuterExitsInAppendOrder ==
    \A i \in 1..Len(reqs) :
        Done(i) =>
            LET k == FirstSkip(ServedWraps) IN
            IF k = 0 THEN Shown(reqs[i].trace) = Expected(ServedWraps)
            ELSE Shown(reqs[i].trace)
                   = EntriesAndSkip(ServedWraps, k)
                       \o [j \in 1..(k - 1) |-> <<"exit", ServedWraps[j].id>>]

\* C14 amended: when a layer returns without calling its inner handler, no
\* layer inside it and not h runs, and the exit effects of the layers outside
\* it run in reverse append order, innermost first; when every layer calls its
\* inner handler, h runs once.
C14_OuterExitsInReverseOrder ==
    \A i \in 1..Len(reqs) :
        Done(i) =>
            LET k == FirstSkip(ServedWraps) IN
            IF k = 0 THEN Shown(reqs[i].trace) = Expected(ServedWraps)
            ELSE Shown(reqs[i].trace)
                   = EntriesAndSkip(ServedWraps, k)
                       \o [j \in 1..(k - 1) |-> <<"exit", ServedWraps[k - j].id>>]

\* a finished request whose third layer answered by itself, inside two
\* different layers
C14_Witness ==
    \E i \in 1..Len(reqs) :
        /\ Done(i)
        /\ FirstSkip(ServedWraps) = 3
        /\ ServedWraps[1] # ServedWraps[2]

(***************************************************************************)
(* End as a build step (Spec).                                             *)
(***************************************************************************)
\* a chain made anew by New(ctx, ws...)
Fresh(ctx, ws) == ChainNew(<<>>, ctx, ws, 0)

C16_NearestInit ==
    [][/\ last'.op \in {"WithValue", "WithCancel"} =>
              GetPHFC(last'.ctx) = GetPHFC(last'.arg)
       /\ (last'.op = "InitPHFC" /\ cells' # cells) =>
              LET g == GetPHFC(last'.ctx) IN
              /\ g.ok
              /\ g.p \notin DOMAIN cells
              /\ g.p # GetPHFC(last'.arg).p
              /\ cells'[g.p] = last'.arg
              /\ \A p \in DOMAIN cells : cells'[p] = cells[p]]_vars

\* a second InitPHFC on a context derived, by a cancellation, from the first
\* one's result
C16_Witness ==
    /\ last.op = "InitPHFC"
    /\ [j \in 1..Len(last.ctx.vals) |-> last.ctx.vals[j].v.typ] = <<"ptr", "nil", "ptr">>
    /\ last.ctx.vals[2].k = CancelKey
    /\ GetPHFC(last.arg).ok

====
